---------------------------- MODULE Spec2Model ----------------------------
(***************************************************************************)
(* Model of torch/csrc/utils/tensor_types.cpp: the legacy tensor type name *)
(* formatter (backend_to_string, options_to_string, type_to_string), the   *)
(* name resolver options_from_string with its two call_once-guarded        *)
(* registries, and the enumerator all_declared_types.                      *)
(*                                                                         *)
(* A std::string is a TLA+ string; its i-th character is SubSeq(s, i, i),  *)
(* and the character '\0' is written @.                                    *)
(* A DeprecatedTypeProperties* is the pair <<backend, scalar type>> that   *)
(* keys the framework's registry of type-properties singletons.  A         *)
(* ScalarType is its enumerator value (0, 1, ...), a Backend is the name   *)
(* of its enumerator.                                                      *)
(***************************************************************************)
EXTENDS Naturals, Sequences, FiniteSets, TLC

(***************************************************************************)
(* Bounds of the model.                                                    *)
(***************************************************************************)
\* Number of threads calling options_from_string concurrently.
NumThreads == 2

Threads == 1 .. NumThreads

(***************************************************************************)
(* The framework around the file (c10 / ATen / autograd), as the           *)
(* specification describes it.                                             *)
(***************************************************************************)
\* The scalar types the specification names, in enumerator order, by the
\* names toString(ScalarType) gives them: ScalarType s has the name
\* ScalarTypeNames[s + 1].
ScalarTypeNames ==
    << "Byte", "Char", "Short", "Int", "Long", "Half", "Float", "Double",
       "ComplexFloat", "ComplexDouble", "Bool", "BFloat16" >>

\* ScalarType::Undefined: the enumerator after the last named scalar type.
Undefined == Len(ScalarTypeNames)

\* ScalarType::NumOptions: the enumerator after Undefined.
NumOptions == Undefined + 1

\* Every ScalarType value, ScalarType::Undefined included.
ScalarTypes == 0 .. Undefined

\* toString(ScalarType): the textual name of a scalar type.
toString(s) ==
    IF s < Undefined THEN ScalarTypeNames[s + 1] ELSE "UNKNOWN_SCALAR"

\* The enumerator value of the scalar type with the given name.
ScalarType(n) == CHOOSE s \in 0 .. (Undefined - 1) : ScalarTypeNames[s + 1] = n

\* The Backend enumeration (the eight the formatter names, and the others).
Backends ==
    { "CPU", "CUDA", "HIP", "FPGA", "XLA", "Vulkan", "XPU", "HPU",
      "SparseCPU", "SparseCUDA", "SparseHIP", "SparseXPU",
      "QuantizedCPU", "QuantizedCUDA", "MkldnnCPU", "Undefined" }

\* getDeprecatedTypeProperties(backend, scalar_type): the registry's singleton.
getDeprecatedTypeProperties(b, s) == << b, s >>

\* DeprecatedTypeProperties::options(): the options bundle of a type.
options(type) == [kind |-> "options", backend |-> type[1], dtype |-> type[2]]

\* allTypesForBackends: every scalar type of every listed backend, in order.
RECURSIVE allTypesForBackends(_)
allTypesForBackends(bs) ==
    IF bs = << >> THEN << >>
    ELSE [s \in 1 .. NumOptions |-> getDeprecatedTypeProperties(Head(bs), s - 1)]
         \o allTypesForBackends(Tail(bs))

\* autograd::VariableType::allCPUTypes().
allCPUTypes == allTypesForBackends(<< "CPU", "SparseCPU" >>)

\* autograd::VariableType::allCUDATypes().
allCUDATypes == allTypesForBackends(<< "CUDA", "SparseCUDA" >>)

\* dispatchKeyToBackend, on the dispatch keys a default tensor type can have.
dispatchKeyToBackend(k) ==
    CASE k = "DispatchKey::CPU" -> "CPU"
      [] k = "DispatchKey::CUDA" -> "CUDA"
      [] OTHER -> "Undefined"

\* The dispatch keys and scalar types set_default_tensor_type accepts
\* (dense backends, floating-point types).
DefaultDispatchKeys == { "DispatchKey::CPU", "DispatchKey::CUDA" }
DefaultScalarTypes ==
    { ScalarType("Half"), ScalarType("Float"), ScalarType("Double"),
      ScalarType("BFloat16") }

(***************************************************************************)
(* The name formatter.                                                     *)
(***************************************************************************)
\* A returned string, and a thrown c10::Error.
Str(s) == [kind |-> "string", val |-> s]
Error(m) == [kind |-> "Error", val |-> m]

\* backend_to_string with the HPU case lost (falls to default:).
backend_to_string_NoHPU(backend) ==
    CASE backend = "CPU" -> Str("torch")
      [] backend = "CUDA" -> Str("torch.cuda")
      [] backend = "XPU" -> Str("torch.xpu")
      [] backend = "SparseCPU" -> Str("torch.sparse")
      [] backend = "SparseCUDA" -> Str("torch.cuda.sparse")
      [] backend = "SparseXPU" -> Str("torch.xpu.sparse")
      [] backend = "QuantizedCPU" -> Str("torch.quantized")
      [] OTHER -> Error("Unimplemented backend " \o backend)

\* backend_to_string with the sparse CUDA namespace written the other way round.
backend_to_string_SparseFirst(backend) ==
    CASE backend = "CPU" -> Str("torch")
      [] backend = "CUDA" -> Str("torch.cuda")
      [] backend = "XPU" -> Str("torch.xpu")
      [] backend = "SparseCPU" -> Str("torch.sparse")
      [] backend = "SparseCUDA" -> Str("torch.sparse.cuda")
      [] backend = "SparseXPU" -> Str("torch.xpu.sparse")
      [] backend = "QuantizedCPU" -> Str("torch.quantized")
      [] backend = "HPU" -> Str("torch.hpu")
      [] OTHER -> Error("Unimplemented backend " \o backend)

\* backend_to_string: the namespace of a backend, or AT_ERROR.
backend_to_string(backend) ==
    CASE backend = "CPU" -> Str("torch")
      [] backend = "CUDA" -> Str("torch.cuda")
      [] backend = "XPU" -> Str("torch.xpu")
      [] backend = "SparseCPU" -> Str("torch.sparse")
      [] backend = "SparseCUDA" -> Str("torch.cuda.sparse")
      [] backend = "SparseXPU" -> Str("torch.xpu.sparse")
      [] backend = "QuantizedCPU" -> Str("torch.quantized")
      [] backend = "HPU" -> Str("torch.hpu")
      [] OTHER -> Error("Unimplemented backend " \o backend)

\* options_to_string: ss << backend_to_string(backend) << "." << name << "Tensor".
\* The throw of backend_to_string leaves the function before anything is built.
options_to_string(opts) ==
    LET ns == backend_to_string(opts.backend)
    IN  IF ns.kind = "Error" THEN ns
        ELSE Str(ns.val \o "." \o toString(opts.dtype) \o "Tensor")

\* type_to_string: the same, from a DeprecatedTypeProperties.
type_to_string(type) ==
    LET ns == backend_to_string(type[1])
    IN  IF ns.kind = "Error" THEN ns
        ELSE Str(ns.val \o "." \o toString(type[2]) \o "Tensor")

(***************************************************************************)
(* State.                                                                  *)
(***************************************************************************)
VARIABLES
    \* options_from_string, per calling thread: the position in the function,
    \* the argument str, the locals backend, scalar_type and map (which
    \* registry the pointer names), the position of type in the vector the
    \* call_once body iterates (0 outside the body), and what the call
    \* returned or threw.
    pc, str, backend, scalar_type, map, type_pos, result,
    \* The function-local statics of options_from_string.
    cpu_once, cuda_once, cpu_map, cuda_map,
    \* How often each call_once body has been entered (a test's build counter).
    cpu_builds, cuda_builds,
    \* torch::tensors' default dispatch key and default scalar type.
    default_dispatch_key, default_scalar_type,
    \* A formatter call: its argument and what it returned or threw.
    arg, formatted,
    \* all_declared_types: the vector ret, the positions of the two loops,
    \* and whether the function has returned.
    ret, bi, si, returned

resolver_vars ==
    << pc, str, backend, scalar_type, map, type_pos, result,
       cpu_once, cuda_once, cpu_map, cuda_map, cpu_builds, cuda_builds >>
default_vars == << default_dispatch_key, default_scalar_type >>
pure_vars == << arg, formatted, ret, bi, si, returned >>
vars == << resolver_vars, default_vars, pure_vars >>

(***************************************************************************)
(* The name resolver, options_from_string.                                 *)
(***************************************************************************)
\* static std::string cuda_prefix("torch.cuda.")
cuda_prefix == "torch.cuda."

\* The character '\0', written @ in the strings of the model.  A
\* std::string may hold it anywhere, and keeps one after its last character.
NUL == "@"

\* *(s.begin() + (i - 1)): the i-th character.  At s.end() the read is
\* outside [begin(), end()); what it finds there is the terminator the
\* string keeps at data()[size()].
CharAt(s, i) == IF i = Len(s) + 1 THEN NUL ELSE SubSeq(s, i, i)

\* str.c_str() as a printf "%s" argument reads it: the characters before
\* the first '\0'.
RECURSIVE strlen(_, _)
strlen(s, n) == IF CharAt(s, n + 1) = NUL THEN n ELSE strlen(s, n + 1)
c_str(s) == SubSeq(s, 1, strlen(s, 0))

\* std::mismatch(first1, last1, first2): the loop
\*   while (first1 != last1 && *first1 == *first2) { ++first1; ++first2; }
\* as the position in the first range where it stops (Len + 1 is last1).
RECURSIVE mismatch(_, _, _)
mismatch(s1, s2, i) ==
    IF i > Len(s1) THEN i
    ELSE IF CharAt(s1, i) # CharAt(s2, i) THEN i
    ELSE mismatch(s1, s2, i + 1)

\* The test of line 60 comparing one character less than the prefix has.
IsCudaName_ShortPrefix(s) ==
    mismatch(SubSeq(cuda_prefix, 1, Len(cuda_prefix) - 1), s, 1) = Len(cuda_prefix)

\* The test of line 60: mismatch(...).first == cuda_prefix.end().
IsCudaName(s) == mismatch(cuda_prefix, s, 1) = Len(cuda_prefix) + 1

\* An entry of a std::unordered_map<std::string, DeprecatedTypeProperties*>.
Entry(k, v) == [key |-> k, value |-> v]

\* m.emplace(k, v): inserts unless the key is there already.
emplace(m, k, v) ==
    IF \E e \in m : e.key = k THEN m ELSE m \cup { Entry(k, v) }

\* m.find(k): the entry with the key, or end().
End == [key |-> "", value |-> << "Undefined", Undefined >>, end |-> TRUE]
find(m, k) ==
    IF \E e \in m : e.key = k THEN CHOOSE e \in m : e.key = k ELSE End

\* What a call gives back: nothing yet, a TensorOptions, or a thrown error.
NoResult == [kind |-> "none"]
\* ValueError("invalid type: '%s'", str.c_str()).
ValueError(s) ==
    [kind |-> "ValueError", msg |-> "invalid type: '" \o c_str(s) \o "'"]

\* The vector the call_once body of a family iterates.
TypesOf(f) == IF f = "cuda" THEN allCUDATypes ELSE allCPUTypes

OnceOf(f) == IF f = "cuda" THEN cuda_once ELSE cpu_once
MapOf(f) == IF f = "cuda" THEN cuda_map ELSE cpu_map

\* The branch of the if of line 60 a thread is in, by its position: the
\* CUDA branch is lines 62-67, the CPU branch lines 69-74.
Branch(t) == IF pc[t] \in { "L62", "L64" } THEN "cuda" ELSE "cpu"
AtCallOnce(t) == pc[t] \in { "L62", "L69" }
InBody(t) == pc[t] \in { "L64", "L71" }
BodyOf(f) == IF f = "cuda" THEN "L64" ELSE "L71"

Init ==
    /\ pc = [t \in Threads |-> "idle"]
    /\ str = [t \in Threads |-> ""]
    /\ backend = [t \in Threads |-> "Undefined"]
    /\ scalar_type = [t \in Threads |-> Undefined]
    /\ map = [t \in Threads |-> "nullptr"]
    /\ type_pos = [t \in Threads |-> 0]
    /\ result = [t \in Threads |-> NoResult]
    /\ cpu_once = "new"
    /\ cuda_once = "new"
    /\ cpu_map = {}
    /\ cuda_map = {}
    /\ cpu_builds = 0
    /\ cuda_builds = 0
    /\ default_dispatch_key = "DispatchKey::CPU"
    /\ default_scalar_type = ScalarType("Float")
    /\ arg = << "CPU", ScalarType("Float") >>
    /\ formatted = NoResult
    /\ ret = << >>
    /\ bi = 1
    /\ si = 1
    /\ returned = FALSE

\* A thread calls options_from_string(s): lines 45-54 and the test of line
\* 60, which touch nothing shared.  The next step is the read of the default
\* (line 55) or the call_once of the branch taken (line 62 or 69).
Call(t, s) ==
    /\ pc[t] \in { "idle", "done" }
    /\ str' = [str EXCEPT ![t] = s]
    /\ backend' = [backend EXCEPT ![t] = "Undefined"]
    /\ scalar_type' = [scalar_type EXCEPT ![t] = Undefined]
    /\ map' = [map EXCEPT ![t] = "nullptr"]
    /\ result' = [result EXCEPT ![t] = NoResult]
    /\ pc' = [pc EXCEPT ![t] =
           IF s = "torch.Tensor" THEN "L55"
           ELSE IF IsCudaName(s) THEN "L62" ELSE "L69"]
    /\ UNCHANGED << type_pos, cpu_once, cuda_once, cpu_map, cuda_map,
                    cpu_builds, cuda_builds, default_vars, pure_vars >>

\* Line 55: backend = dispatchKeyToBackend(get_default_dispatch_key()).
ReadDefaultBackend(t) ==
    /\ pc[t] = "L55"
    /\ backend' = [backend EXCEPT ![t] = dispatchKeyToBackend(default_dispatch_key)]
    /\ pc' = [pc EXCEPT ![t] = "L56"]
    /\ UNCHANGED << str, scalar_type, map, type_pos, result, cpu_once,
                    cuda_once, cpu_map, cuda_map, cpu_builds, cuda_builds,
                    default_vars, pure_vars >>

\* Lines 56-57 with the scalar type fixed to Float instead of the default.
ReadDefaultScalarType_Float(t) ==
    /\ pc[t] = "L56"
    /\ scalar_type' = [scalar_type EXCEPT ![t] = ScalarType("Float")]
    /\ result' = [result EXCEPT ![t] =
           options(getDeprecatedTypeProperties(backend[t], ScalarType("Float")))]
    /\ pc' = [pc EXCEPT ![t] = "done"]
    /\ UNCHANGED << str, backend, map, type_pos, cpu_once, cuda_once, cpu_map,
                    cuda_map, cpu_builds, cuda_builds, default_vars, pure_vars >>

\* Lines 56-57: scalar_type = get_default_scalar_type(), and the return of
\* getDeprecatedTypeProperties(backend, scalar_type).options().
ReadDefaultScalarType(t) ==
    /\ pc[t] = "L56"
    /\ scalar_type' = [scalar_type EXCEPT ![t] = default_scalar_type]
    /\ result' = [result EXCEPT ![t] =
           options(getDeprecatedTypeProperties(backend[t], default_scalar_type))]
    /\ pc' = [pc EXCEPT ![t] = "done"]
    /\ UNCHANGED << str, backend, map, type_pos, cpu_once, cuda_once, cpu_map,
                    cuda_map, cpu_builds, cuda_builds, default_vars, pure_vars >>

\* The once_flag of family f becomes v, the body has been entered n more times.
SetOnce(f, v, n) ==
    /\ cpu_once' = IF f = "cpu" THEN v ELSE cpu_once
    /\ cuda_once' = IF f = "cuda" THEN v ELSE cuda_once
    /\ cpu_builds' = IF f = "cpu" THEN cpu_builds + n ELSE cpu_builds
    /\ cuda_builds' = IF f = "cuda" THEN cuda_builds + n ELSE cuda_builds

\* call_once entered on a flag that is checked and set in two steps: a
\* second thread gets in while the first one is still in the body.
EnterCallOnce_Racy(t) ==
    /\ AtCallOnce(t)
    /\ OnceOf(Branch(t)) # "done"
    /\ SetOnce(Branch(t), "running", 1)
    /\ type_pos' = [type_pos EXCEPT ![t] = 1]
    /\ pc' = [pc EXCEPT ![t] = BodyOf(Branch(t))]
    /\ UNCHANGED << str, backend, scalar_type, map, result, cpu_map, cuda_map,
                    default_vars, pure_vars >>

\* Lines 62 and 69, std::call_once on a flag no call has completed and no
\* thread is running: this thread becomes the one that runs the body, which
\* starts by asking the framework for the family's types.
EnterCallOnce(t) ==
    /\ AtCallOnce(t)
    /\ OnceOf(Branch(t)) = "new"
    /\ SetOnce(Branch(t), "running", 1)
    /\ type_pos' = [type_pos EXCEPT ![t] = 1]
    /\ pc' = [pc EXCEPT ![t] = BodyOf(Branch(t))]
    /\ UNCHANGED << str, backend, scalar_type, map, result, cpu_map, cuda_map,
                    default_vars, pure_vars >>

\* call_once returning as soon as some thread has entered the body.
PassCallOnce_NoWait(t) ==
    /\ AtCallOnce(t)
    /\ OnceOf(Branch(t)) # "new"
    /\ map' = [map EXCEPT ![t] = Branch(t)]
    /\ pc' = [pc EXCEPT ![t] = "L77"]
    /\ UNCHANGED << str, backend, scalar_type, type_pos, result, cpu_once,
                    cuda_once, cpu_map, cuda_map, cpu_builds, cuda_builds,
                    default_vars, pure_vars >>

\* Lines 62 and 69, std::call_once on a flag whose body has completed: it
\* returns at once, and map = &cuda_map or &cpu_map (lines 67, 74).  While
\* another thread runs the body the call blocks: no step of this thread.
PassCallOnce(t) ==
    /\ AtCallOnce(t)
    /\ OnceOf(Branch(t)) = "done"
    /\ map' = [map EXCEPT ![t] = Branch(t)]
    /\ pc' = [pc EXCEPT ![t] = "L77"]
    /\ UNCHANGED << str, backend, scalar_type, type_pos, result, cpu_once,
                    cuda_once, cpu_map, cuda_map, cpu_builds, cuda_builds,
                    default_vars, pure_vars >>

\* The loop body with the flag marked complete at the first emplace.
Emplace_EarlyDone(t) ==
    /\ InBody(t)
    /\ type_pos[t] <= Len(TypesOf(Branch(t)))
    /\ LET type == TypesOf(Branch(t))[type_pos[t]]
           name == type_to_string(type)
       IN  /\ cpu_map' = IF Branch(t) = "cpu"
                         THEN emplace(cpu_map, name.val, type) ELSE cpu_map
           /\ cuda_map' = IF Branch(t) = "cuda"
                          THEN emplace(cuda_map, name.val, type) ELSE cuda_map
    /\ type_pos' = [type_pos EXCEPT ![t] = type_pos[t] + 1]
    /\ SetOnce(Branch(t), "done", 0)
    /\ UNCHANGED << pc, str, backend, scalar_type, map, result, default_vars,
                    pure_vars >>

\* Lines 63-65 and 70-72, one iteration of the loop in the call_once body:
\* map.emplace(type_to_string(*type), type).  A throw of type_to_string
\* leaves call_once with the flag reset, and the call with the error.
Emplace(t) ==
    /\ InBody(t)
    /\ type_pos[t] <= Len(TypesOf(Branch(t)))
    /\ LET type == TypesOf(Branch(t))[type_pos[t]]
           name == type_to_string(type)
       IN  IF name.kind = "Error"
           THEN /\ SetOnce(Branch(t), "new", 0)
                /\ result' = [result EXCEPT ![t] = name]
                /\ pc' = [pc EXCEPT ![t] = "done"]
                /\ type_pos' = [type_pos EXCEPT ![t] = 0]
                /\ UNCHANGED << cpu_map, cuda_map >>
           ELSE /\ cpu_map' = IF Branch(t) = "cpu"
                              THEN emplace(cpu_map, name.val, type) ELSE cpu_map
                /\ cuda_map' = IF Branch(t) = "cuda"
                               THEN emplace(cuda_map, name.val, type) ELSE cuda_map
                /\ type_pos' = [type_pos EXCEPT ![t] = type_pos[t] + 1]
                /\ UNCHANGED << pc, result, cpu_once, cuda_once, cpu_builds,
                                cuda_builds >>
    /\ UNCHANGED << str, backend, scalar_type, map, default_vars, pure_vars >>

\* The end of the body with the flag left as it is.
LeaveCallOnce_FlagNotSet(t) ==
    /\ InBody(t)
    /\ type_pos[t] > Len(TypesOf(Branch(t)))
    /\ type_pos' = [type_pos EXCEPT ![t] = 0]
    /\ map' = [map EXCEPT ![t] = Branch(t)]
    /\ pc' = [pc EXCEPT ![t] = "L77"]
    /\ UNCHANGED << str, backend, scalar_type, result, cpu_once, cuda_once,
                    cpu_map, cuda_map, cpu_builds, cuda_builds, default_vars,
                    pure_vars >>

\* The end of the call_once body: the flag is marked complete, which
\* releases the threads blocked on it, and map = &cuda_map or &cpu_map.
LeaveCallOnce(t) ==
    /\ InBody(t)
    /\ type_pos[t] > Len(TypesOf(Branch(t)))
    /\ SetOnce(Branch(t), "done", 0)
    /\ type_pos' = [type_pos EXCEPT ![t] = 0]
    /\ map' = [map EXCEPT ![t] = Branch(t)]
    /\ pc' = [pc EXCEPT ![t] = "L77"]
    /\ UNCHANGED << str, backend, scalar_type, result, cpu_map, cuda_map,
                    default_vars, pure_vars >>

\* Lines 77-81: it = map->find(str); throw ValueError("invalid type: '%s'")
\* at end(), else return it->second->options().
Lookup(t) ==
    LET e == find(MapOf(map[t]), str[t])
    IN  /\ pc[t] = "L77"
        /\ result' = [result EXCEPT ![t] =
               IF e = End THEN ValueError(str[t]) ELSE options(e.value)]
        /\ pc' = [pc EXCEPT ![t] = "done"]
        /\ UNCHANGED << str, backend, scalar_type, map, type_pos, cpu_once,
                        cuda_once, cpu_map, cuda_map, cpu_builds, cuda_builds,
                        default_vars, pure_vars >>

\* The framework sets another default tensor type.
SetDefault(k, s) ==
    /\ << k, s >> # << default_dispatch_key, default_scalar_type >>
    /\ default_dispatch_key' = k
    /\ default_scalar_type' = s
    /\ UNCHANGED << resolver_vars, pure_vars >>

\* The steps of a thread inside options_from_string.
Step(t) ==
    \/ ReadDefaultBackend(t)
    \/ ReadDefaultScalarType(t)
    \/ EnterCallOnce(t)
    \/ PassCallOnce(t)
    \/ Emplace(t)
    \/ LeaveCallOnce(t)
    \/ Lookup(t)

\* The strings the concurrent callers pass: the default sentinel, a name of
\* each family, and a name neither registry has for each family.
Inputs ==
    { "torch.Tensor", "torch.FloatTensor", "torch.cuda.DoubleTensor",
      "torch.bogus.NotARealTensor", "torch.cuda.BogusTensor" }

Next ==
    \/ \E t \in Threads : \E s \in Inputs : Call(t, s)
    \/ \E t \in Threads : Step(t)

\* Any number of threads calling options_from_string concurrently.
Spec == Init /\ [][Next]_vars

\* The same under a fair scheduler: a thread that can take a step inside
\* options_from_string eventually takes one.
FairSpec == Spec /\ \A t \in Threads : WF_vars(Step(t))

(***************************************************************************)
(* One caller passing every name the formatter gives the enumerated types, *)
(* names of other namespaces and malformed names.                          *)
(***************************************************************************)
\* type_to_string of every type allCPUTypes() and allCUDATypes() yield.
EnumeratedTypes ==
    { allCPUTypes[i] : i \in 1 .. Len(allCPUTypes) }
        \cup { allCUDATypes[i] : i \in 1 .. Len(allCUDATypes) }
FormattedNames == { type_to_string(ty).val : ty \in EnumeratedTypes }

\* Names no registry has: other namespaces, and strings around the prefix.
OtherNames ==
    { "torch.bogus.NotARealTensor", "torch.wat.Tensor", "torch.xpu.FloatTensor",
      "torch.quantized.FloatTensor", "torch.hpu.FloatTensor",
      "torch.cuda.BogusTensor", "torch.cuda.", "torch.cuda", "torch.cud",
      "torch.cudaFloatTensor", "torch.cuda_FloatTensor", "Torch.cuda.FloatTensor",
      "torch", "", "torch.Float@Tensor", "torch.cuda.@" }

RoundTripNext ==
    \/ \E s \in FormattedNames \cup OtherNames \cup { "torch.Tensor" } : Call(1, s)
    \/ Step(1)

RoundTripSpec == Init /\ [][RoundTripNext]_vars

(***************************************************************************)
(* The default sentinel: one thread resolves the names of the default      *)
(* types, another resolves "torch.Tensor", and the framework changes the   *)
(* default tensor type in between.                                         *)
(***************************************************************************)
DefaultNames ==
    { type_to_string(<< dispatchKeyToBackend(k), s >>).val :
          k \in DefaultDispatchKeys, s \in DefaultScalarTypes }

DefaultNext ==
    \/ \E s \in DefaultNames : Call(1, s)
    \/ Call(2, "torch.Tensor")
    \/ \E t \in { 1, 2 } : Step(t)
    \/ \E k \in DefaultDispatchKeys : \E s \in DefaultScalarTypes : SetDefault(k, s)

DefaultSpec == Init /\ [][DefaultNext]_vars

(***************************************************************************)
(* The formatter and all_declared_types on their own.                      *)
(***************************************************************************)
\* Line 88: the backends all_declared_types goes through.
backends == << "CPU", "CUDA", "SparseCPU", "SparseCUDA" >>

\* Lines 93-96: the scalar types all_declared_types goes through
\* (AT_FORALL_SCALAR_TYPES_WITH_COMPLEX_EXCEPT_COMPLEX_HALF).
scalar_types == [i \in 1 .. Len(ScalarTypeNames) |-> i - 1]

\* The test of line 101 without its SparseCPU half.
IsSkipped_CudaOnly(b, st) == st = ScalarType("Bool") /\ b = "SparseCUDA"

\* Line 101: there is no sparse bool type.
IsSkipped(b, st) ==
    st = ScalarType("Bool") /\ (b = "SparseCUDA" \/ b = "SparseCPU")

PureInit ==
    /\ pc = [t \in Threads |-> "idle"]
    /\ str = [t \in Threads |-> ""]
    /\ backend = [t \in Threads |-> "Undefined"]
    /\ scalar_type = [t \in Threads |-> Undefined]
    /\ map = [t \in Threads |-> "nullptr"]
    /\ type_pos = [t \in Threads |-> 0]
    /\ result = [t \in Threads |-> NoResult]
    /\ cpu_once = "new"
    /\ cuda_once = "new"
    /\ cpu_map = {}
    /\ cuda_map = {}
    /\ cpu_builds = 0
    /\ cuda_builds = 0
    /\ default_dispatch_key = "DispatchKey::CPU"
    /\ default_scalar_type = ScalarType("Float")
    /\ arg \in Backends \X ScalarTypes
    /\ formatted = NoResult
    /\ ret = << >>
    /\ bi = 1
    /\ si = 1
    /\ returned = FALSE

\* type_to_string(getDeprecatedTypeProperties(backend, scalar type)).
FormatType ==
    /\ formatted = NoResult
    /\ formatted' = type_to_string(getDeprecatedTypeProperties(arg[1], arg[2]))
    /\ UNCHANGED << resolver_vars, default_vars, arg, ret, bi, si, returned >>

\* options_to_string(the options of that type).
FormatOptions ==
    /\ formatted = NoResult
    /\ formatted' = options_to_string(options(arg))
    /\ UNCHANGED << resolver_vars, default_vars, arg, ret, bi, si, returned >>

\* Lines 98-106: one iteration of the inner loop of all_declared_types.
LoopStep ==
    /\ ~ returned
    /\ bi <= Len(backends)
    /\ ret' = IF IsSkipped(backends[bi], scalar_types[si]) THEN ret
              ELSE Append(ret, << backends[bi], scalar_types[si] >>)
    /\ si' = IF si < Len(scalar_types) THEN si + 1 ELSE 1
    /\ bi' = IF si < Len(scalar_types) THEN bi ELSE bi + 1
    /\ UNCHANGED << resolver_vars, default_vars, arg, formatted, returned >>

\* Line 108: return ret.
Return ==
    /\ ~ returned
    /\ bi > Len(backends)
    /\ returned' = TRUE
    /\ UNCHANGED << resolver_vars, default_vars, arg, formatted, ret, bi, si >>

PureNext == FormatType \/ FormatOptions \/ LoopStep \/ Return

PureSpec == PureInit /\ [][PureNext]_vars

(***************************************************************************)
(* What the registries hold once built, stated apart from the loop.        *)
(***************************************************************************)
Range(seq) == { seq[i] : i \in 1 .. Len(seq) }

\* The entries a completed build of family f leaves: one per enumerated type.
BuiltRegistry(f) == { Entry(type_to_string(ty).val, ty) : ty \in Range(TypesOf(f)) }

Keys(m) == { e.key : e \in m }

\* s begins with the literal prefix "torch.cuda.".
BeginsWithCudaPrefix(s) == Len(s) >= 11 /\ SubSeq(s, 1, 11) = "torch.cuda."

\* The family whose registry a call with s (not the sentinel) is to use.
Selected(s) == IF BeginsWithCudaPrefix(s) THEN "cuda" ELSE "cpu"

\* Thread t is inside a call for a family (not the default sentinel) and has
\* come back from call_once.
PastCallOnce(t) ==
    /\ pc[t] \in { "L77", "done" }
    /\ str[t] # "torch.Tensor"
    /\ result[t].kind # "Error"

(***************************************************************************)
(* C1.  For each family, under any interleaving of concurrent callers, the *)
(* call_once body that builds the family's registry is entered at most     *)
(* once, and exactly once as soon as some caller of that family has come   *)
(* back from call_once.                                                    *)
(***************************************************************************)
C1_BuiltExactlyOnce ==
    /\ cpu_builds <= 1
    /\ cuda_builds <= 1
    /\ \A t \in Threads :
           PastCallOnce(t) =>
               IF Selected(str[t]) = "cuda" THEN cuda_builds = 1 ELSE cpu_builds = 1

\* Two callers of the CUDA family have both returned, after a call for the
\* CPU family: each body ran once.
C1_Witness ==
    \E t1, t2 \in Threads :
        /\ t1 # t2
        /\ pc[t1] = "done" /\ pc[t2] = "done"
        /\ str[t1] = "torch.cuda.DoubleTensor"
        /\ str[t2] = "torch.cuda.BogusTensor"
        /\ cuda_builds = 1
        /\ cpu_builds = 1

(***************************************************************************)
(* C2.  No caller looks a name up in a registry that is unbuilt or partly  *)
(* built: a thread at the lookup (line 77) holds the registry of its       *)
(* family, whose build is complete and whose entries are all there; and a  *)
(* caller that finds another thread in the body of its family's call_once  *)
(* has no step to take until that body ends.                               *)
(***************************************************************************)
C2_LookupAfterBuild ==
    \A t \in Threads :
        /\ pc[t] = "L77" =>
               /\ map[t] = Selected(str[t])
               /\ OnceOf(map[t]) = "done"
               /\ MapOf(map[t]) = BuiltRegistry(map[t])
        /\ (AtCallOnce(t) /\ OnceOf(Selected(str[t])) = "running") =>
               ~ ENABLED Step(t)

\* A caller waits at call_once while another thread is half-way through the
\* build of the same family.
C2_Witness ==
    \E t1, t2 \in Threads :
        /\ InBody(t1)
        /\ type_pos[t1] > 1
        /\ type_pos[t1] <= Len(TypesOf(Selected(str[t1])))
        /\ AtCallOnce(t2)
        /\ Selected(str[t2]) = Selected(str[t1])
        /\ MapOf(Selected(str[t1])) # {}
        /\ MapOf(Selected(str[t1])) # BuiltRegistry(Selected(str[t1]))

(***************************************************************************)
(* C3.  A call with a string that is not "torch.Tensor" and not a key of   *)
(* the selected registry ends with the invalid-type error carrying exactly *)
(* that string, with the selected registry as its build left it and no     *)
(* entry in either registry that the builds did not put there.             *)
(***************************************************************************)
C3_InvalidType ==
    \A t \in Threads :
        ( /\ pc[t] = "done"
          /\ str[t] # "torch.Tensor"
          /\ str[t] \notin Keys(BuiltRegistry(Selected(str[t]))) ) =>
            /\ result[t].kind = "ValueError"
            /\ result[t].msg = "invalid type: '" \o str[t] \o "'"
            /\ MapOf(Selected(str[t])) = BuiltRegistry(Selected(str[t]))
            /\ cpu_map \subseteq BuiltRegistry("cpu")
            /\ cuda_map \subseteq BuiltRegistry("cuda")

(***************************************************************************)
(* C6.  Each registry is read-only after its build: once a family's flag   *)
(* is complete it stays complete, the registry holds exactly the entries   *)
(* of the build, and no step of any thread changes it.                     *)
(***************************************************************************)
C6_BuiltIsComplete ==
    /\ cpu_once = "done" => cpu_map = BuiltRegistry("cpu")
    /\ cuda_once = "done" => cuda_map = BuiltRegistry("cuda")

C6_NoChangeAfterBuild ==
    /\ cpu_once = "done" => (cpu_once' = "done" /\ cpu_map' = cpu_map)
    /\ cuda_once = "done" => (cuda_once' = "done" /\ cuda_map' = cuda_map)

C6_ReadOnlyAfterBuild == [] C6_BuiltIsComplete /\ [][C6_NoChangeAfterBuild]_vars

\* Both registries are built, and calls that succeeded and calls that failed
\* have gone by.
C6_Witness ==
    /\ cpu_once = "done"
    /\ cuda_once = "done"
    /\ \E t \in Threads : pc[t] = "done" /\ result[t].kind = "ValueError"
    /\ \E t \in Threads : pc[t] = "done" /\ result[t].kind = "options"
                          /\ str[t] # "torch.Tensor"

(***************************************************************************)
(* C9.  Under a fair scheduler every call returns, with options or with an *)
(* error: a thread inside options_from_string, blocked at call_once or     *)
(* not, eventually reaches the end of its call.                            *)
(***************************************************************************)
C9_EveryCallReturns ==
    \A t \in Threads : (pc[t] \notin { "idle", "done" }) ~> (pc[t] = "done")

\* A caller is blocked at call_once while the builder of its family is at
\* the end of the body.
C9_Witness ==
    \E t1, t2 \in Threads :
        /\ InBody(t1)
        /\ type_pos[t1] = Len(TypesOf(Selected(str[t1]))) + 1
        /\ AtCallOnce(t2)
        /\ Selected(str[t2]) = Selected(str[t1])
        /\ ~ ENABLED Step(t2)

(***************************************************************************)
(* C4.  Round trip: for every type allCPUTypes() and allCUDATypes() yield, *)
(* options_from_string(type_to_string(type)) returns the options of that   *)
(* type, looked up in the CPU registry for an allCPUTypes entry and in the *)
(* CUDA registry for an allCUDATypes entry.                                *)
(***************************************************************************)
C4_RoundTrip ==
    \A t \in Threads :
        /\ \A ty \in Range(allCPUTypes) :
               (pc[t] = "done" /\ str[t] = type_to_string(ty).val) =>
                   /\ result[t] = [kind |-> "options", backend |-> ty[1],
                                   dtype |-> ty[2]]
                   /\ map[t] = "cpu"
        /\ \A ty \in Range(allCUDATypes) :
               (pc[t] = "done" /\ str[t] = type_to_string(ty).val) =>
                   /\ result[t] = [kind |-> "options", backend |-> ty[1],
                                   dtype |-> ty[2]]
                   /\ map[t] = "cuda"

\* The name of the sparse CUDA Long type has been resolved to its options.
C4_Witness ==
    /\ pc[1] = "done"
    /\ str[1] = "torch.cuda.sparse.LongTensor"
    /\ str[1] = type_to_string(<< "SparseCUDA", ScalarType("Long") >>).val
    /\ result[1] = [kind |-> "options", backend |-> "SparseCUDA",
                    dtype |-> ScalarType("Long")]

(***************************************************************************)
(* C5.  Default sentinel: a call with "torch.Tensor" that finds the        *)
(* default (backend, scalar type) configured returns what a call with the  *)
(* formatted name of that default returns.  The call reads the two halves  *)
(* of the default one after the other; the statement is about the calls    *)
(* whose backend, read first, is still the configured one when the scalar  *)
(* type is read.                                                           *)
(***************************************************************************)
C5_SentinelStep ==
    \A t, u \in Threads :
        ( /\ pc[t] = "L56"
          /\ pc'[t] = "done"
          /\ backend[t] = dispatchKeyToBackend(default_dispatch_key)
          /\ pc[u] = "done"
          /\ str[u] = type_to_string(<< dispatchKeyToBackend(default_dispatch_key),
                                        default_scalar_type >>).val ) =>
            result'[t] = result[u]

Rank(pair) ==
    LET b == CHOOSE i \in 1 .. Len(backends) : backends[i] = pair[1]
        k == CHOOSE i \in 1 .. Len(scalar_types) : scalar_types[i] = pair[2]
    IN  (b - 1) * Len(scalar_types) + k

C7_DeclaredTypes ==
    returned =>
        /\ \A i \in 1 .. Len(ret) :
               /\ ret[i] # << "SparseCPU", ScalarType("Bool") >>
               /\ ret[i] # << "SparseCUDA", ScalarType("Bool") >>
        /\ \A b \in { "CPU", "CUDA", "SparseCPU", "SparseCUDA" } :
               \A st \in Range(scalar_types) :
                   ( << b, st >> \notin { << "SparseCPU", ScalarType("Bool") >>,
                                         << "SparseCUDA", ScalarType("Bool") >> } ) =>
                       Cardinality({ i \in 1 .. Len(ret) : ret[i] = << b, st >> }) = 1
        /\ \A i, j \in 1 .. Len(ret) : i < j => Rank(ret[i]) < Rank(ret[j])
        /\ Len(ret) = 4 * Len(scalar_types) - 2

\* The function has returned, (SparseCPU, Bool) skipped and (CPU, Bool) kept.
C7_Witness ==
    /\ returned
    /\ Len(ret) = 46
    /\ \E i \in 1 .. Len(ret) : ret[i] = << "CPU", ScalarType("Bool") >>
    /\ ret[Len(ret)] = << "SparseCUDA", ScalarType("BFloat16") >>

(***************************************************************************)
(* C8.  Formatting a backend among CPU, CUDA, XPU, SparseCPU, SparseCUDA,  *)
(* SparseXPU, QuantizedCPU and HPU gives "<namespace>.<ScalarTypeName>     *)
(* Tensor" with the namespace of that backend; formatting any other        *)
(* backend throws the unimplemented-backend error and gives no string.     *)
(***************************************************************************)
Namespace ==
    [ CPU |-> "torch", CUDA |-> "torch.cuda", XPU |-> "torch.xpu",
      SparseCPU |-> "torch.sparse", SparseCUDA |-> "torch.cuda.sparse",
      SparseXPU |-> "torch.xpu.sparse", QuantizedCPU |-> "torch.quantized",
      HPU |-> "torch.hpu" ]

C8_Formatting ==
    formatted # NoResult =>
        IF arg[1] \in DOMAIN Namespace
        THEN /\ formatted.kind = "string"
             /\ formatted.val =
                    Namespace[arg[1]] \o "." \o toString(arg[2]) \o "Tensor"
        ELSE /\ formatted.kind = "Error"
             /\ formatted.val = "Unimplemented backend " \o arg[1]

\* A quantized CUDA type has been formatted: the error, no string.
C8_Witness ==
    /\ arg[1] = "QuantizedCUDA"
    /\ formatted.kind = "Error"

(***************************************************************************)
(* C10.  A call touches only the registry of the family it selects.  A     *)
(* string other than "torch.Tensor" selects the CUDA registry exactly when *)
(* it begins with "torch.cuda." and the CPU registry otherwise; the call   *)
(* leaves the other family's registry, flag and build count as they are;   *)
(* a call with "torch.Tensor" selects, builds and reads neither.           *)
(***************************************************************************)
C10_Selection ==
    \A t \in Threads :
        /\ str[t] = "torch.Tensor" =>
               (map[t] = "nullptr" /\ ~ AtCallOnce(t) /\ ~ InBody(t)
                /\ pc[t] # "L77")
        /\ (str[t] # "torch.Tensor" /\ pc[t] \notin { "idle", "done" }) =>
               IF BeginsWithCudaPrefix(str[t])
               THEN pc[t] \in { "L62", "L64", "L77" } /\ map[t] \in { "nullptr", "cuda" }
               ELSE pc[t] \in { "L69", "L71", "L77" } /\ map[t] \in { "nullptr", "cpu" }
        /\ (str[t] # "torch.Tensor" /\ pc[t] \in { "L77", "done" }
            /\ result[t].kind # "Error") =>
               map[t] = Selected(str[t])

\* The step is one of thread t (a call, or a step inside its call).
StepOf(t) ==
    \/ pc'[t] # pc[t]
    \/ type_pos'[t] # type_pos[t]
    \/ str'[t] # str[t]

C10_Frame ==
    \A t \in Threads :
        StepOf(t) =>
            /\ (str'[t] = "torch.Tensor" \/ Selected(str'[t]) = "cuda") =>
                   /\ cpu_map' = cpu_map
                   /\ cpu_once' = cpu_once
                   /\ cpu_builds' = cpu_builds
            /\ (str'[t] = "torch.Tensor" \/ Selected(str'[t]) = "cpu") =>
                   /\ cuda_map' = cuda_map
                   /\ cuda_once' = cuda_once
                   /\ cuda_builds' = cuda_builds

C10_OnlySelectedRegistry == [] C10_Selection /\ [][C10_Frame]_vars

\* A sparse CPU name has been resolved in the CPU registry with the CUDA
\* registry built before and left as it was.
C10_Witness ==
    /\ pc[1] = "done"
    /\ str[1] = "torch.sparse.LongTensor"
    /\ map[1] = "cpu"
    /\ result[1].kind = "options"
    /\ cuda_once = "done"
    /\ cuda_map = BuiltRegistry("cuda")
    /\ cuda_builds = 1

=============================================================================
